---- MODULE Spec2Model ----
(***************************************************************************)
(* A model of async_redis: RedisConnectionManager (connection_manager.py)  *)
(* and AsyncRedisClient (client.py).  Every client is one logical task;    *)
(* each await of a store round trip is one step of that task, so the calls *)
(* of different clients interleave at exactly the suspension points of the *)
(* code.  The store is one key space shared by data keys and lock keys.    *)
(***************************************************************************)
EXTENDS Naturals, Sequences, FiniteSets, TLC

VARIABLES
    store,       \* the store's key space: key -> entry
    reachable,   \* whether a round trip to the store succeeds
    pc,          \* per client: the await its current call is suspended at
    args,        \* per client: the arguments of its current (or last) call
    ret,         \* per client: how its last finished call ended
    exc,         \* per client: exception travelling through `async with self._lock`
    reply,       \* per client: the store's reply to the last data command
    localToken,  \* per client: self._lock.local.token
    conn,        \* per client: self._conn
    lock,        \* per client: self._lock
    nextConn,    \* identity of the next Redis(connection_pool=...) object
    released,    \* identities of the Redis objects that were aclose()d
    instances,   \* the RedisConnectionManager objects __init__ has run on
    handles,     \* what each RedisConnectionManager(...) construction returned
    poolDown,    \* whether pool.disconnect() ran
    subscribed,  \* per client: the channel its pubsub is subscribed to
    stream,      \* per client: messages waiting in its pubsub
    consumed,    \* per client: messages pubsub.listen() has yielded
    cbLog,       \* per client: payloads callback was invoked with
    inflight,    \* per client: callback invocations started and not completed
    ncalls,      \* number of calls started
    prior        \* the store before the first call

vars == <<store, reachable, pc, args, ret, exc, reply, localToken, conn, lock,
          nextConn, released, instances, handles, poolDown, subscribed, stream,
          consumed, cbLog, inflight, ncalls, prior>>

storeVars == <<store, reachable>>
lifeVars  == <<conn, lock, nextConn, released>>
mgrVars   == <<instances, handles, poolDown>>
subVars   == <<subscribed, stream, consumed, cbLog, inflight>>

----------------------------------------------------------------------------
(* Bounds of the model. *)

\* calls started in one behaviour
MaxCalls == 2

\* messages the pubsubs receive in one behaviour, confirmations included
MaxMessages == 3

\* RedisConnectionManager(...) constructions in one behaviour
MaxConstructions == 3

----------------------------------------------------------------------------
(* Values. *)

\* an absent (None) and a present attribute or argument
None == <<>>
Some(x) == <<x>>

\* what a call hands back to its caller: None, a string, a list of keys, an
\* integer, or the client itself
PyNone == [kind |-> "None", str |-> "", list |-> {}, int |-> 0]
PyStr(x) == [PyNone EXCEPT !.kind = "str", !.str = x]
PyList(x) == [PyNone EXCEPT !.kind = "list", !.list = x]
PyInt(x) == [PyNone EXCEPT !.kind = "int", !.int = x]
PySelf(c) == [PyNone EXCEPT !.kind = "self", !.str = c]
PyBytes(x) == [PyNone EXCEPT !.kind = "bytes", !.str = x]

\* a byte string that is not valid UTF-8
Undecodable == "\\xff"

Clients == {"c1", "c2", "c3"}

\* self.namespace: c1 and c2 share a namespace, c3 has its own
Namespace(c) == IF c = "c3" THEN "b" ELSE "a"

\* f"{self.namespace}:lock"
LockName(ns) == ns \o ":lock"

LockKeys == {LockName(Namespace(c)) : c \in Clients}

\* keys callers pass to set/get/sadd: an ordinary key and the key of a lock
DataKeys == {"k", "a:lock"}

StoreKeys == DataKeys \cup LockKeys

\* the token Lock.acquire draws (uuid1): unique to the acquiring client
Token(c) == "token-" \o c

Channels == {"ch1", "ch2"}
Payloads == {"m1", "m2"}
Patterns == {"*", "k"}

\* values callers pass to set (value: Any): a string, an integer, None (one
\* of the values the connection refuses to send) and bytes that are not text
SetValues == {PyStr("v"), PyInt(5), PyNone, PyBytes(Undecodable)}

\* those of them the store hands back as text
TextValues == {v \in SetValues : v.kind \in {"str", "int"}}
ExValues == {None, Some(1)}
Members == {"x", "y"}
SaddValues == (SUBSET Members) \ {{}}

----------------------------------------------------------------------------
(* The store's commands, as the client issues them. *)

Absent == [type |-> "none", str |-> "", members |-> {}, ttl |-> FALSE]

\* (mutant) SET that leaves a key that already holds something as it is
RedisSetKeepsExisting(st, key, value, ex) ==
    IF st[key].type # "none" THEN st
    ELSE [st EXCEPT ![key] = [type |-> "string", str |-> value, members |-> {},
                              ttl |-> (ex # None)]]

\* SET key value [EX ex]: overwrites whatever the key held, of any type
RedisSet(st, key, value, ex) ==
    [st EXCEPT ![key] = [type |-> "string", str |-> value, members |-> {},
                         ttl |-> (ex # None)]]

\* the values the connection sends: strings, bytes and numbers; for None, a
\* bool, a list or a dict it raises DataError (a RedisError) and sends nothing
Encodable(v) == v.kind \in {"str", "bytes", "int"}

\* what the connection sends for a value it accepts: a string or bytes as
\* they are, an integer as its decimal text
Encode(v) == IF v.kind = "int" THEN ToString(v.int) ELSE v.str

\* decode_responses=True: a reply is decoded as UTF-8 text, which fails
\* (UnicodeDecodeError) on other bytes
Decodable(text) == text # Undecodable

\* SET name token NX (Lock.do_acquire, no timeout): only when the key is absent
RedisSetNX(st, key, token) ==
    IF st[key].type = "none" THEN RedisSet(st, key, token, None) ELSE st

\* SADD is refused (WRONGTYPE) on a key holding a string
RedisSaddAllowed(st, key) == st[key].type \in {"none", "set"}

RedisSadd(st, key, values) ==
    [st EXCEPT ![key] = [type |-> "set", str |-> "",
                         members |-> @.members \cup values, ttl |-> @.ttl]]

\* SADD's reply: the number of members that were added
RedisSaddReply(st, key, values) == Cardinality(values \ st[key].members)

\* GET: the string at key, absent for a missing key; WRONGTYPE on a set
RedisGetAllowed(st, key) == st[key].type \in {"none", "string"}

RedisGet(st, key) == IF st[key].type = "string" THEN PyStr(st[key].str) ELSE PyNone

\* Lock.do_release's script starts with GET: WRONGTYPE (a ResponseError) when
\* the key holds a set
LuaReleaseAllowed(st, key) == st[key].type \in {"none", "string"}

\* Lock.do_release's script: delete the key only when it holds the token
LuaReleaseOwned(st, key, token) ==
    st[key].type = "string" /\ st[key].str = token

RedisDel(st, key) == [st EXCEPT ![key] = Absent]

\* KEYS pattern: "*" matches every key, a pattern without wildcard itself
GlobMatch(pattern, key) == pattern = "*" \/ pattern = key

RedisKeys(st, pattern) ==
    {k \in StoreKeys : st[k].type # "none" /\ GlobMatch(pattern, k)}

\* what pubsub.listen() yields: the subscription's confirmation, a published message
Confirmation(ch) == [type |-> "subscribe", channel |-> ch, data |-> "1"]
DataMessage(ch, m) == [type |-> "message", channel |-> ch, data |-> m]

\* PUBLISH channel message: one message to every pubsub subscribed to channel
RedisPublish(str, subs, ch, m) ==
    [s \in Clients |-> IF subs[s] = Some(ch) THEN Append(str[s], DataMessage(ch, m))
                                              ELSE str[s]]

----------------------------------------------------------------------------
(* Calls and their outcomes. *)

NoArgs == [op |-> "none", key |-> "", value |-> PyNone, ex |-> None,
           values |-> {}, channel |-> ""]

\* how a call ended; logged: whether it wrote logger.error
NoRet == [op |-> "none", status |-> "none", value |-> PyNone, error |-> "",
          logged |-> FALSE]

Returned(op, v) == [op |-> op, status |-> "returned", value |-> v, error |-> "",
                    logged |-> FALSE]

Raised(op, e) == [op |-> op, status |-> "raised", value |-> PyNone, error |-> e,
                  logged |-> FALSE]

\* (mutant) the handler logs the RedisError and raises it again
SoftFailureReraised(op, v) ==
    [op |-> op, status |-> "raised", value |-> PyNone, error |-> "RedisError",
     logged |-> TRUE]

\* except RedisError: logger.error(...), then the handler's own return value
SoftFailure(op, v) == [Returned(op, v) EXCEPT !.logged = TRUE]

\* except RedisError: logger.error(...); raise
LoggedRaise(op, e) == [Raised(op, e) EXCEPT !.logged = TRUE]

\* the call of client c ends: back to the caller
Finish(c, r) ==
    /\ pc' = [pc EXCEPT ![c] = "idle"]
    /\ ret' = [ret EXCEPT ![c] = [r EXCEPT !.logged = r.logged \/ ret[c].logged]]
    /\ exc' = [exc EXCEPT ![c] = ""]
    /\ UNCHANGED args

\* a call starts on an idle client; one that raises before its first await
\* ends at once (at = "idle", r = how it ended)
Start(c, a, at, r) ==
    /\ pc[c] = "idle"
    /\ ncalls < MaxCalls
    /\ ncalls' = ncalls + 1
    /\ pc' = [pc EXCEPT ![c] = at]
    /\ args' = [args EXCEPT ![c] = a]
    /\ ret' = [ret EXCEPT ![c] = r]
    /\ reply' = [reply EXCEPT ![c] = None]

\* a call with a single await, from its start to its return
Atomic(c, r) ==
    /\ pc[c] = "idle"
    /\ ret' = [ret EXCEPT ![c] = r]
    /\ UNCHANGED <<pc, args, exc, reply>>

\* the client holds its namespace lock: the lock key carries its token
HoldsLock(c) == LuaReleaseOwned(store, LockName(Namespace(c)), Token(c))

\* between acquiring and releasing the lock inside set or sadd
InCritical(c) == pc[c] \in {"locked", "release"}

----------------------------------------------------------------------------
(* set and sadd: async with self._lock: try: await self._conn.<cmd>(...) *)

\* set(key, value, ex) with a value of the given set: entering
\* `async with self._lock`
SetCallOf(c, values) ==
    \E k \in DataKeys, v \in values, e \in ExValues :
        /\ IF lock[c] = None     \* `async with None` raises
             THEN Start(c, [NoArgs EXCEPT !.op = "set", !.key = k, !.value = v,
                                          !.ex = e], "idle", Raised("set", "TypeError"))
             ELSE Start(c, [NoArgs EXCEPT !.op = "set", !.key = k, !.value = v,
                                          !.ex = e], "acquire", NoRet)
        /\ UNCHANGED <<storeVars, exc, localToken, lifeVars, mgrVars, subVars, prior>>

\* set(key, value, ex)
SetCall(c) == SetCallOf(c, SetValues)

\* sadd(key, *values): entering `async with self._lock`
SaddCall(c) ==
    \E k \in DataKeys, vs \in SaddValues :
        /\ IF lock[c] = None     \* `async with None` raises
             THEN Start(c, [NoArgs EXCEPT !.op = "sadd", !.key = k, !.values = vs],
                        "idle", Raised("sadd", "TypeError"))
             ELSE Start(c, [NoArgs EXCEPT !.op = "sadd", !.key = k, !.values = vs],
                        "acquire", NoRet)
        /\ UNCHANGED <<storeVars, exc, localToken, lifeVars, mgrVars, subVars, prior>>

\* Lock.__aenter__ -> acquire(): SET NX succeeded, the token is remembered.
\* While the key exists the task sleeps and tries again (no step).
Acquire(c) ==
    /\ pc[c] = "acquire"
    /\ reachable
    /\ store[lock[c][1].name].type = "none"
    /\ store' = RedisSetNX(store, lock[c][1].name, Token(c))
    /\ localToken' = [localToken EXCEPT ![c] = Some(Token(c))]
    /\ pc' = [pc EXCEPT ![c] = "locked"]
    /\ UNCHANGED <<reachable, args, ret, exc, reply, lifeVars, mgrVars,
                   subVars, prior, ncalls>>

\* Lock.acquire()'s round trip raises: outside the try, so the caller gets it
AcquireFail(c) ==
    /\ pc[c] = "acquire"
    /\ ~reachable
    /\ Finish(c, Raised(args[c].op, "ConnectionError"))
    /\ UNCHANGED <<storeVars, reply, localToken, lifeVars, mgrVars, subVars, prior,
                   ncalls>>

\* await self._conn.set(key, value, ex=ex) under the lock.  When the await
\* ends the block is left: Lock.release() forgets the token
\* (self.local.token = None) and only then awaits the release script.
SetOp(c) ==
    /\ pc[c] = "locked"
    /\ args[c].op = "set"
    /\ pc' = [pc EXCEPT ![c] = "release"]
    /\ \/ /\ conn[c] # None /\ reachable /\ Encodable(args[c].value)
          /\ store' = RedisSet(store, args[c].key, Encode(args[c].value), args[c].ex)
          /\ reply' = [reply EXCEPT ![c] = Some(1)]
          /\ UNCHANGED <<exc, ret>>
       \/ /\ conn[c] # None                     \* except RedisError: logged
          /\ ~reachable \/ ~Encodable(args[c].value)
          /\ ret' = [ret EXCEPT ![c].logged = TRUE]
          /\ UNCHANGED <<store, reply, exc>>
       \/ /\ conn[c] = None                     \* None has no attribute set
          /\ exc' = [exc EXCEPT ![c] = "AttributeError"]
          /\ UNCHANGED <<store, reply, ret>>
    /\ localToken' = [localToken EXCEPT ![c] = None]
    /\ UNCHANGED <<reachable, args, lifeVars, mgrVars, subVars, prior, ncalls>>

\* await self._conn.sadd(key, *values) under the lock; the reply is dropped.
\* Leaving the block forgets the token before the release script is awaited.
SaddOp(c) ==
    /\ pc[c] = "locked"
    /\ args[c].op = "sadd"
    /\ pc' = [pc EXCEPT ![c] = "release"]
    /\ \/ /\ conn[c] # None /\ reachable
          /\ RedisSaddAllowed(store, args[c].key)
          /\ store' = RedisSadd(store, args[c].key, args[c].values)
          /\ reply' = [reply EXCEPT ![c] =
                          Some(RedisSaddReply(store, args[c].key, args[c].values))]
          /\ UNCHANGED <<exc, ret>>
       \/ /\ conn[c] # None                     \* except RedisError: logged
          /\ ~reachable \/ ~RedisSaddAllowed(store, args[c].key)
          /\ ret' = [ret EXCEPT ![c].logged = TRUE]
          /\ UNCHANGED <<store, reply, exc>>
       \/ /\ conn[c] = None                     \* None has no attribute sadd
          /\ exc' = [exc EXCEPT ![c] = "AttributeError"]
          /\ UNCHANGED <<store, reply, ret>>
    /\ localToken' = [localToken EXCEPT ![c] = None]
    /\ UNCHANGED <<reachable, args, lifeVars, mgrVars, subVars, prior, ncalls>>

\* what set and sadd hand back once the block is left without an exception
SetResult == PyNone
SaddResult(r) == PyNone

\* Lock.__aexit__ -> release() -> do_release(expected_token): the round trip
\* of the release script, run with the token the call had acquired
Release(c) ==
    /\ pc[c] = "release"
    /\ \/ /\ reachable
          /\ LuaReleaseOwned(store, lock[c][1].name, Token(c))
          /\ store' = RedisDel(store, lock[c][1].name)
          /\ IF exc[c] # ""
               THEN Finish(c, Raised(args[c].op, exc[c]))
               ELSE Finish(c, Returned(args[c].op,
                                IF args[c].op = "sadd" THEN SaddResult(reply[c])
                                                       ELSE SetResult))
       \/ /\ reachable
          /\ LuaReleaseAllowed(store, lock[c][1].name)
          /\ ~LuaReleaseOwned(store, lock[c][1].name, Token(c))
          /\ Finish(c, Raised(args[c].op, "LockNotOwnedError"))
          /\ UNCHANGED store
       \/ /\ reachable                     \* the script's GET is refused
          /\ ~LuaReleaseAllowed(store, lock[c][1].name)
          /\ Finish(c, Raised(args[c].op, "ResponseError"))
          /\ UNCHANGED store
       \/ /\ ~reachable
          /\ Finish(c, Raised(args[c].op, "ConnectionError"))
          /\ UNCHANGED store
    /\ UNCHANGED <<reachable, reply, localToken, lifeVars, mgrVars, subVars,
                   prior, ncalls>>

----------------------------------------------------------------------------
(* RedisConnectionManager *)

Hosts == {"localhost", "h2"}
Ports == {6379, 6380}
Dbs == {0, 1}
PoolSizes == {10, 5}

ManagerArgs == [host : Hosts, port : Ports, db : Dbs, max_connections : PoolSizes]

\* __init__'s defaults
DefaultArgs == [host |-> "localhost", port |-> 6379, db |-> 0, max_connections |-> 10]

\* (mutant) the pool is built without the host it was given
NewPoolDefaultHost(host, port, db, max_connections) ==
    [host |-> "localhost", port |-> port, db |-> db,
     max_connections |-> max_connections, decode_responses |-> TRUE]

\* BlockingConnectionPool(host=..., port=..., db=..., max_connections=...,
\* decode_responses=True)
NewPool(host, port, db, max_connections) ==
    [host |-> host, port |-> port, db |-> db,
     max_connections |-> max_connections, decode_responses |-> TRUE]

\* __init__: the object owns one new pool
NewManager(a) == [pool |-> NewPool(a.host, a.port, a.db, a.max_connections)]

\* SingletonMeta.__call__: __init__ runs for the first construction only
SingletonCall(insts, a) == IF insts = <<>> THEN <<NewManager(a)>> ELSE insts

\* get_pool() of the object a construction returned
GetPool(h) == instances[h.inst].pool

\* RedisConnectionManager(host, port, db, max_connections)
Construct ==
    \E a \in ManagerArgs :
        /\ Len(handles) < MaxConstructions
        /\ instances' = SingletonCall(instances, a)
        /\ handles' = Append(handles, [args |-> a, inst |-> Len(instances')])
        /\ UNCHANGED <<storeVars, pc, args, ret, exc, reply, localToken, lifeVars,
                       poolDown, subVars, prior, ncalls>>

\* RedisConnectionManager.close(): await self.pool.disconnect(), which closes
\* the pool's sockets locally, whether or not the store is reachable
ManagerClose ==
    /\ instances # <<>>
    /\ poolDown' = TRUE
    /\ UNCHANGED <<storeVars, pc, args, ret, exc, reply, localToken, lifeVars,
                   instances, handles, subVars, prior, ncalls>>

----------------------------------------------------------------------------
(* init, close and the scoped block. *)

LifeOps == {"init", "await", "aenter"}

\* (mutant) the connection is stored before the awaited initialisation fails
ConnOnInitFailurePartial(c) == Some(nextConn)

\* self._conn = await Redis(...): nothing is assigned when the await raises
ConnOnInitFailure(c) == conn[c]

\* (mutant) close() without its guard
HasConnUnguarded(c) == TRUE

\* if self._conn:
HasConn(c) == conn[c] # None

\* init(), or `await client` (__await__ returns init().__await__())
InitCall(c) ==
    \E via \in {"init", "await"} :
        /\ Start(c, [NoArgs EXCEPT !.op = via], "init_await", NoRet)
        /\ UNCHANGED <<storeVars, exc, localToken, lifeVars, mgrVars, subVars, prior>>

\* __aenter__: if self._conn is None: await self.init(); return self
AEnter(c) ==
    /\ IF conn[c] = None
         THEN Start(c, [NoArgs EXCEPT !.op = "aenter"], "init_await", NoRet)
         ELSE Start(c, [NoArgs EXCEPT !.op = "aenter"], "idle",
                    Returned("aenter", PySelf(c)))
    /\ UNCHANGED <<storeVars, exc, localToken, lifeVars, mgrVars, subVars, prior>>

\* await Redis(connection_pool=self._pool) returned; RedisLock(self._conn, name).
\* With a pool passed in, the await makes no round trip: it returns whether
\* or not the store is reachable.
InitOk(c) ==
    /\ pc[c] = "init_await"
    /\ conn' = [conn EXCEPT ![c] = Some(nextConn)]
    /\ lock' = [lock EXCEPT ![c] = Some([name |-> LockName(Namespace(c)),
                                         conn |-> nextConn])]
    /\ localToken' = [localToken EXCEPT ![c] = None]
    /\ nextConn' = nextConn + 1
    /\ Finish(c, Returned(args[c].op, PySelf(c)))
    /\ UNCHANGED <<storeVars, reply, released, mgrVars, subVars, prior, ncalls>>

\* await Redis(connection_pool=self._pool) raises RedisError: logged, raised.
\* Nothing but an unreachable store can make it raise.
InitFail(c) ==
    /\ pc[c] = "init_await"
    /\ ~reachable
    /\ conn' = [conn EXCEPT ![c] = ConnOnInitFailure(c)]
    /\ Finish(c, LoggedRaise(args[c].op, "ConnectionError"))
    /\ UNCHANGED <<storeVars, reply, localToken, lock, nextConn, released,
                   mgrVars, subVars, prior, ncalls>>

\* close(): if self._conn: try aclose() / except RedisError: log / finally:
\* self._conn = None
Close(c) ==
    /\ ncalls < MaxCalls
    /\ ncalls' = ncalls + 1
    /\ \/ /\ HasConn(c) /\ conn[c] # None              \* aclose() returned
          /\ released' = released \cup {conn[c][1]}
          /\ Atomic(c, Returned("close", PyNone))
       \/ /\ HasConn(c) /\ conn[c] # None /\ ~reachable \* aclose() raised RedisError
          /\ Atomic(c, SoftFailure("close", PyNone))
          /\ UNCHANGED released
       \/ /\ HasConn(c) /\ conn[c] = None              \* None has no attribute aclose
          /\ Atomic(c, Raised("close", "AttributeError"))
          /\ UNCHANGED released
       \/ /\ ~HasConn(c)
          /\ Atomic(c, Returned("close", PyNone))
          /\ UNCHANGED released
    /\ conn' = [conn EXCEPT ![c] = None]
    /\ UNCHANGED <<storeVars, localToken, lock, nextConn, mgrVars, subVars, prior>>

\* __aexit__: if self._conn: await self._conn.aclose()
AExit(c) ==
    /\ ncalls < MaxCalls
    /\ ncalls' = ncalls + 1
    /\ \/ /\ conn[c] # None                             \* aclose() returned
          /\ released' = released \cup {conn[c][1]}
          /\ Atomic(c, Returned("aexit", PyNone))
       \/ /\ conn[c] # None /\ ~reachable                \* aclose() raised RedisError
          /\ Atomic(c, Raised("aexit", "ConnectionError"))
          /\ UNCHANGED released
       \/ /\ conn[c] = None
          /\ Atomic(c, Returned("aexit", PyNone))
          /\ UNCHANGED released
    /\ UNCHANGED <<storeVars, localToken, conn, lock, nextConn, mgrVars, subVars,
                   prior>>

----------------------------------------------------------------------------
(* get, keys, publish: one round trip each, without the lock. *)

\* (mutant) get with `except Exception` in place of `except RedisError`
GetOutcomeCatchesAll(c, k) ==
    IF conn[c] # None /\ reachable /\ RedisGetAllowed(store, k)
         /\ Decodable(store[k].str)
      THEN Returned("get", RedisGet(store, k))
      ELSE SoftFailure("get", PyNone)

\* how get(key) ends: try: return await self._conn.get(key) / except RedisError.
\* A reply that cannot be decoded raises UnicodeDecodeError, which is no
\* RedisError.
GetOutcome(c, k) ==
    IF conn[c] = None THEN Raised("get", "AttributeError")
    ELSE IF reachable /\ RedisGetAllowed(store, k)
           THEN IF Decodable(store[k].str)
                  THEN Returned("get", RedisGet(store, k))
                  ELSE Raised("get", "UnicodeDecodeError")
           ELSE SoftFailure("get", PyNone)

\* (mutant) get inside `async with self._lock`, as set and sadd are
GetKeyUnderLock(c, k) ==
    /\ lock[c] # None
    /\ store[lock[c][1].name].type = "none"
    /\ ncalls < MaxCalls
    /\ ncalls' = ncalls + 1
    /\ Atomic(c, GetOutcome(c, k))
    /\ UNCHANGED <<storeVars, localToken, lifeVars, mgrVars, subVars, prior>>

\* get(key) for one key
GetKey(c, k) ==
    /\ ncalls < MaxCalls
    /\ ncalls' = ncalls + 1
    /\ Atomic(c, GetOutcome(c, k))
    /\ UNCHANGED <<storeVars, localToken, lifeVars, mgrVars, subVars, prior>>

\* get(key)
Get(c) == \E k \in DataKeys : GetKey(c, k)

\* keys(pattern)
Keys(c) ==
    \E p \in Patterns :
        /\ ncalls < MaxCalls
        /\ ncalls' = ncalls + 1
        /\ Atomic(c, IF conn[c] = None THEN Raised("keys", "AttributeError")
                  ELSE IF reachable
                         THEN Returned("keys", PyList(RedisKeys(store, p)))
                         ELSE SoftFailure("keys", PyList({})))
        /\ UNCHANGED <<storeVars, localToken, lifeVars, mgrVars, subVars, prior>>

\* the messages the pubsubs of the clients in S have received
RECURSIVE Received(_)
Received(S) ==
    IF S = {} THEN 0
    ELSE LET s == CHOOSE x \in S : TRUE
         IN  Len(stream[s]) + Len(consumed[s]) + Received(S \ {s})

\* publish(channel, message)
Publish(c) ==
    \E ch \in Channels, m \in Payloads :
        /\ Received(Clients) < MaxMessages
        /\ Atomic(c, IF conn[c] = None THEN Raised("publish", "AttributeError")
                  ELSE IF reachable THEN Returned("publish", PyNone)
                                    ELSE SoftFailure("publish", PyNone))
        /\ stream' = IF conn[c] # None /\ reachable
                       THEN RedisPublish(stream, subscribed, ch, m)
                       ELSE stream
        /\ UNCHANGED <<storeVars, localToken, lifeVars, mgrVars, subscribed,
                       consumed, cbLog, inflight, prior, ncalls>>

----------------------------------------------------------------------------
(* subscribe(channel, callback) *)

\* (mutant) the callback is invoked for a message of any type
IsAnyMessage(m) == TRUE

\* if message['type'] == 'message'
IsDataMessage(m) == m.type = "message"

\* (mutant) callback(message['data']) is started and not awaited
AfterInvokeNotAwaited == "listen"

\* await callback(message['data']): the loop is suspended until it completes
AfterInvoke == "callback"

\* leaving `async with self._conn.pubsub()`: the pubsub is closed
PubsubClosed(c) ==
    /\ subscribed' = [subscribed EXCEPT ![c] = None]
    /\ stream' = [stream EXCEPT ![c] = <<>>]

\* subscribe(channel, callback): self._conn.pubsub()
SubscribeCall(c) ==
    \E ch \in Channels :
        /\ IF conn[c] = None
             THEN Start(c, [NoArgs EXCEPT !.op = "subscribe", !.channel = ch],
                        "idle", Raised("subscribe", "AttributeError"))
             ELSE Start(c, [NoArgs EXCEPT !.op = "subscribe", !.channel = ch],
                        "subscribing", NoRet)
        /\ consumed' = [consumed EXCEPT ![c] = <<>>]
        /\ cbLog' = [cbLog EXCEPT ![c] = <<>>]
        /\ UNCHANGED <<storeVars, exc, localToken, lifeVars, mgrVars, subscribed,
                       stream, inflight, prior>>

\* await pubsub.subscribe(channel): the store confirms the subscription
SubscribeOk(c) ==
    /\ pc[c] = "subscribing"
    /\ reachable
    /\ subscribed' = [subscribed EXCEPT ![c] = Some(args[c].channel)]
    /\ stream' = [stream EXCEPT ![c] = <<Confirmation(args[c].channel)>>]
    /\ pc' = [pc EXCEPT ![c] = "listen"]
    /\ UNCHANGED <<storeVars, args, ret, exc, reply, localToken, lifeVars,
                   mgrVars, consumed, cbLog, inflight, prior, ncalls>>

\* await pubsub.subscribe(channel) raises RedisError: logged, the call returns
SubscribeFail(c) ==
    /\ pc[c] = "subscribing"
    /\ ~reachable
    /\ Finish(c, SoftFailure("subscribe", PyNone))
    /\ PubsubClosed(c)
    /\ UNCHANGED <<storeVars, reply, localToken, lifeVars, mgrVars, consumed,
                   cbLog, inflight, prior, ncalls>>

\* async for message in pubsub.listen(): the next message, and the callback
\* when it is a data message
Listen(c) ==
    /\ pc[c] = "listen"
    /\ stream[c] # <<>>
    /\ stream' = [stream EXCEPT ![c] = Tail(@)]
    /\ consumed' = [consumed EXCEPT ![c] = Append(@, Head(stream[c]))]
    /\ IF IsDataMessage(Head(stream[c]))
         THEN /\ cbLog' = [cbLog EXCEPT ![c] = Append(@, Head(stream[c]).data)]
              /\ inflight' = [inflight EXCEPT ![c] = @ + 1]
              /\ pc' = [pc EXCEPT ![c] = AfterInvoke]
         ELSE UNCHANGED <<cbLog, inflight, pc>>
    /\ UNCHANGED <<storeVars, args, ret, exc, reply, localToken, lifeVars,
                   mgrVars, subscribed, prior, ncalls>>

\* pubsub.listen() raises RedisError: logged, the loop ends, the call returns
ListenFail(c) ==
    /\ pc[c] = "listen"
    /\ ~reachable
    /\ Finish(c, SoftFailure("subscribe", PyNone))
    /\ PubsubClosed(c)
    /\ UNCHANGED <<storeVars, reply, localToken, lifeVars, mgrVars, consumed,
                   cbLog, inflight, prior, ncalls>>

\* the awaited callback completes: back to pubsub.listen()
CallbackDone(c) ==
    /\ pc[c] = "callback"
    /\ inflight' = [inflight EXCEPT ![c] = @ - 1]
    /\ pc' = [pc EXCEPT ![c] = "listen"]
    /\ UNCHANGED <<storeVars, args, ret, exc, reply, localToken, lifeVars,
                   mgrVars, subscribed, stream, consumed, cbLog, prior, ncalls>>

\* the awaited callback raises: a RedisError is caught by subscribe's
\* `except RedisError` (logged, subscribe returns), any other exception
\* leaves subscribe
CallbackRaise(c) ==
    /\ pc[c] = "callback"
    /\ inflight' = [inflight EXCEPT ![c] = @ - 1]
    /\ \/ Finish(c, SoftFailure("subscribe", PyNone))
       \/ Finish(c, Raised("subscribe", "CallbackError"))
    /\ PubsubClosed(c)
    /\ UNCHANGED <<storeVars, reply, localToken, lifeVars, mgrVars, consumed,
                   cbLog, prior, ncalls>>

----------------------------------------------------------------------------
(* The store's own steps. *)

\* a key written with EX expires
Expire(k) ==
    /\ store[k].ttl
    /\ store' = RedisDel(store, k)
    /\ UNCHANGED <<reachable, pc, args, ret, exc, reply, localToken, lifeVars,
                   mgrVars, subVars, prior, ncalls>>

\* the store becomes unreachable, or reachable again
Outage ==
    /\ reachable' = ~reachable
    /\ UNCHANGED <<store, pc, args, ret, exc, reply, localToken, lifeVars,
                   mgrVars, subVars, prior, ncalls>>

----------------------------------------------------------------------------
(* Clients that completed init(), on an empty reachable store. *)

ConnId(c) == CASE c = "c1" -> 1 [] c = "c2" -> 2 [] OTHER -> 3

ReadyLock(c, id) == Some([name |-> LockName(Namespace(c)), conn |-> id])

InitCommon ==
    /\ reachable = TRUE
    /\ prior = store
    /\ pc = [c \in Clients |-> "idle"]
    /\ args = [c \in Clients |-> NoArgs]
    /\ ret = [c \in Clients |-> NoRet]
    /\ exc = [c \in Clients |-> ""]
    /\ reply = [c \in Clients |-> None]
    /\ localToken = [c \in Clients |-> None]
    /\ poolDown = FALSE
    /\ subscribed = [c \in Clients |-> None]
    /\ stream = [c \in Clients |-> <<>>]
    /\ consumed = [c \in Clients |-> <<>>]
    /\ cbLog = [c \in Clients |-> <<>>]
    /\ inflight = [c \in Clients |-> 0]
    /\ ncalls = 0

\* the clients were constructed with one manager, built with its defaults
OneManager ==
    /\ instances = <<NewManager(DefaultArgs)>>
    /\ handles = <<[args |-> DefaultArgs, inst |-> 1]>>

AllReady ==
    /\ conn = [c \in Clients |-> Some(ConnId(c))]
    /\ lock = [c \in Clients |-> ReadyLock(c, ConnId(c))]
    /\ nextConn = Cardinality(Clients) + 1
    /\ released = {}

InitReady ==
    /\ store = [k \in StoreKeys |-> Absent]
    /\ InitCommon
    /\ AllReady
    /\ OneManager

NextLock ==
    \/ \E c \in Clients : SetCall(c)
    \/ \E c \in Clients : SaddCall(c)
    \/ \E c \in Clients : Acquire(c)
    \/ \E c \in Clients : AcquireFail(c)
    \/ \E c \in Clients : SetOp(c)
    \/ \E c \in Clients : SaddOp(c)
    \/ \E c \in Clients : Release(c)
    \/ \E k \in StoreKeys : Expire(k)
    \/ Outage

SpecLock == InitReady /\ [][NextLock]_vars

(* set and sadd calls on a store that stays reachable, every task that can   *)
(* take a step eventually scheduled, every key with a TTL eventually expired. *)

NextProgress ==
    \/ \E c \in Clients : SetCall(c)
    \/ \E c \in Clients : SaddCall(c)
    \/ \E c \in Clients : Acquire(c)
    \/ \E c \in Clients : SetOp(c)
    \/ \E c \in Clients : SaddOp(c)
    \/ \E c \in Clients : Release(c)
    \/ \E k \in StoreKeys : Expire(k)

\* the event loop resumes a task once the round trip it awaits can complete
FairProgress ==
    /\ \A c \in Clients :
          /\ WF_vars(Acquire(c))
          /\ WF_vars(SetOp(c))
          /\ WF_vars(SaddOp(c))
          /\ WF_vars(Release(c))
    /\ \A k \in StoreKeys : WF_vars(Expire(k))

SpecProgress == InitReady /\ [][NextProgress]_vars /\ FairProgress

(* Two sadd calls on a reachable store that may already hold a set at "k". *)

\* what "k" may hold before the first call: nothing, a string, a set
InitialEntries ==
    {Absent, [Absent EXCEPT !.type = "string", !.str = "v"],
     [Absent EXCEPT !.type = "set", !.members = {"x"}]}

InitStored ==
    /\ store \in {[k \in StoreKeys |-> IF k = "k" THEN e ELSE Absent] :
                     e \in InitialEntries}
    /\ InitCommon
    /\ AllReady
    /\ OneManager

NextSadd ==
    \/ \E c \in Clients : SaddCall(c)
    \/ \E c \in Clients : Acquire(c)
    \/ \E c \in Clients : SaddOp(c)
    \/ \E c \in Clients : Release(c)

SpecSadd == InitStored /\ [][NextSadd]_vars

(* Subscribers and publishers, with the lock-free reads, under outages. *)

InitStringStored ==
    /\ InitStored
    /\ store["k"].type = "string"

NextSub ==
    \/ \E c \in Clients : SubscribeCall(c)
    \/ \E c \in Clients : SubscribeOk(c)
    \/ \E c \in Clients : SubscribeFail(c)
    \/ \E c \in Clients : Listen(c)
    \/ \E c \in Clients : ListenFail(c)
    \/ \E c \in Clients : CallbackDone(c)
    \/ \E c \in Clients : CallbackRaise(c)
    \/ \E c \in Clients : Publish(c)
    \/ \E c \in Clients : Get(c)
    \/ \E c \in Clients : Keys(c)
    \/ Outage

SpecSub == InitStringStored /\ [][NextSub]_vars

(* A set call and the reads that follow it, on a reachable store whose keys  *)
(* expire.                                                                 *)

NextRoundTrip ==
    \/ \E c \in Clients : SetCall(c)
    \/ \E c \in Clients : Acquire(c)
    \/ \E c \in Clients : SetOp(c)
    \/ \E c \in Clients : Release(c)
    \/ \E c \in Clients : Get(c)
    \/ \E k \in StoreKeys : Expire(k)

SpecRoundTrip == InitStored /\ [][NextRoundTrip]_vars

(* Reads, broadcasts and subscriptions next to set calls of Ready clients,   *)
(* on a reachable store.  What a set call writes plays no part here: the    *)
(* calls pass text values.                                                  *)

NextFree ==
    \/ \E c \in Clients : SetCallOf(c, TextValues)
    \/ \E c \in Clients : Acquire(c)
    \/ \E c \in Clients : SetOp(c)
    \/ \E c \in Clients : Release(c)
    \/ \E c \in Clients : Get(c)
    \/ \E c \in Clients : Keys(c)
    \/ \E c \in Clients : Publish(c)
    \/ \E c \in Clients : SubscribeCall(c)
    \/ \E c \in Clients : SubscribeOk(c)

SpecFree == InitStringStored /\ [][NextFree]_vars

(* Lifecycle: c1 is Ready, c2 was initialised and closed, c3 was only         *)
(* constructed.                                                              *)

InitLife ==
    /\ store = [k \in StoreKeys |-> Absent]
    /\ InitCommon
    /\ conn = [c \in Clients |-> IF c = "c1" THEN Some(ConnId(c)) ELSE None]
    /\ lock = [c \in Clients |-> IF c = "c3" THEN None ELSE ReadyLock(c, ConnId(c))]
    /\ nextConn = Cardinality(Clients) + 1
    /\ released = {ConnId("c2")}
    /\ OneManager

NextLife ==
    \/ \E c \in Clients : InitCall(c)
    \/ \E c \in Clients : AEnter(c)
    \/ \E c \in Clients : InitOk(c)
    \/ \E c \in Clients : InitFail(c)
    \/ \E c \in Clients : Close(c)
    \/ \E c \in Clients : AExit(c)
    \/ Outage

SpecLife == InitLife /\ [][NextLife]_vars

(* Every operation on every client: c1 is Ready, c2 was closed, c3 was never *)
(* initialised; the store is reachable and holds a string at "k".  The set   *)
(* calls pass text values.                                                  *)

InitOutside ==
    /\ store = [k \in StoreKeys |->
                   IF k = "k" THEN [Absent EXCEPT !.type = "string", !.str = "v"]
                              ELSE Absent]
    /\ InitCommon
    /\ conn = [c \in Clients |-> IF c = "c1" THEN Some(ConnId(c)) ELSE None]
    /\ lock = [c \in Clients |-> IF c = "c3" THEN None ELSE ReadyLock(c, ConnId(c))]
    /\ nextConn = Cardinality(Clients) + 1
    /\ released = {ConnId("c2")}
    /\ OneManager

NextOutside ==
    \/ \E c \in Clients : SetCallOf(c, TextValues)
    \/ \E c \in Clients : SaddCall(c)
    \/ \E c \in Clients : Acquire(c)
    \/ \E c \in Clients : SetOp(c)
    \/ \E c \in Clients : SaddOp(c)
    \/ \E c \in Clients : Release(c)
    \/ \E c \in Clients : Get(c)
    \/ \E c \in Clients : Keys(c)
    \/ \E c \in Clients : Publish(c)
    \/ \E c \in Clients : SubscribeCall(c)
    \/ \E c \in Clients : SubscribeOk(c)
    \/ \E c \in Clients : Close(c)

SpecOutside == InitOutside /\ [][NextOutside]_vars

(* Constructions of the manager, from a process that has none. *)

InitMgr ==
    /\ store = [k \in StoreKeys |-> Absent]
    /\ InitCommon
    /\ conn = [c \in Clients |-> None]
    /\ lock = [c \in Clients |-> None]
    /\ nextConn = 1
    /\ released = {}
    /\ instances = <<>>
    /\ handles = <<>>

NextMgr ==
    \/ Construct
    \/ ManagerClose

SpecMgr == InitMgr /\ [][NextMgr]_vars

----------------------------------------------------------------------------
(* Claims. *)

\* C1: among the clients of one namespace, at most one is between acquiring
\* and releasing the namespace lock inside set or sadd.
C1_MutualExclusion ==
    \A c, d \in Clients :
        (c # d /\ Namespace(c) = Namespace(d)) => ~(InCritical(c) /\ InCritical(d))

\* C2: once two concurrent sadd calls of two clients of one namespace on the
\* same key have both returned, the stored set is the union of its prior
\* members and all values passed to both calls.
C2_NoLostUpdate ==
    \A c, d \in Clients :
        (/\ c # d /\ Namespace(c) = Namespace(d)
         /\ pc[c] = "idle" /\ pc[d] = "idle"
         /\ ret[c].op = "sadd" /\ ret[d].op = "sadd"
         /\ ret[c].status = "returned" /\ ret[d].status = "returned"
         /\ args[c].key = args[d].key
         /\ prior[args[c].key].type \in {"none", "set"})
        => /\ store[args[c].key].type = "set"
           /\ store[args[c].key].members =
                  prior[args[c].key].members \cup args[c].values \cup args[d].values

\* C3: a client with no set/sadd call in progress does not hold the namespace
\* lock: after every exit path of the call the lock key no longer carries
\* the client's token.
C3_LockReleased ==
    \A c \in Clients : pc[c] = "idle" => ~HoldsLock(c)

\* C4: sadd on a reachable store returns the integer number of passed values
\* that were not already members of the set (the store's reply to SADD).
C4_SaddReturnsCount ==
    \A c \in Clients :
        (pc[c] = "idle" /\ ret[c].op = "sadd" /\ ret[c].status = "returned"
           /\ reply[c] # None)
        => ret[c].value = PyInt(reply[c][1])


\* the data messages among msgs, and how often payload p occurs in a sequence
OfTypeMessage(msgs) == SelectSeq(msgs, LAMBDA m : m.type = "message")
Occurrences(seq, p) == Cardinality({i \in DOMAIN seq : seq[i] = p})

\* C5: within a subscribe call every data message taken from the stream has
\* caused exactly one callback invocation with its payload, and no message
\* of another kind has caused one.
C5_SubscribeDelivery ==
    \A c \in Clients :
        /\ Len(cbLog[c]) = Len(OfTypeMessage(consumed[c]))
        /\ \A p \in Payloads :
              Occurrences(cbLog[c], p) =
                Cardinality({i \in DOMAIN consumed[c] :
                               consumed[c][i].type = "message" /\ consumed[c][i].data = p})

\* a confirmation and a data message were taken, and the callback ran
C5_Witness ==
    \E c \in Clients :
        /\ \E i \in DOMAIN consumed[c] : consumed[c][i].type = "subscribe"
        /\ \E i \in DOMAIN consumed[c] : consumed[c][i].type = "message"
        /\ Len(cbLog[c]) >= 1

\* C6: callbacks are invoked in the arrival order of their data messages, at
\* most one invocation is in flight, and no message is taken from the stream
\* while a callback is in flight.
C6_OrderedBackPressure ==
    [][\A c \in Clients :
          /\ inflight'[c] <= 1
          /\ cbLog'[c] = [i \in 1..Len(OfTypeMessage(consumed'[c])) |->
                             OfTypeMessage(consumed'[c])[i].data]
          /\ (consumed'[c] # consumed[c] /\ consumed'[c] # <<>>) => inflight[c] = 0]_vars

\* two different payloads were delivered, the second callback is in flight
C6_Witness ==
    \E c \in Clients :
        /\ Len(cbLog[c]) = 2 /\ cbLog[c][1] # cbLog[c][2]
        /\ pc[c] = "callback" /\ inflight[c] = 1

\* C7: close() on a client without a connection raises nothing and changes
\* nothing, and no close() changes the pool or another client.
C7_CloseIdempotentLocal ==
    [][\A c \in Clients :
          Close(c) =>
             /\ conn[c] = None =>
                   /\ ret'[c].status = "returned"
                   /\ conn'[c] = None /\ lock'[c] = lock[c]
                   /\ localToken'[c] = localToken[c]
                   /\ released' = released /\ store' = store
             /\ instances' = instances /\ handles' = handles /\ poolDown' = poolDown
             /\ \A d \in Clients \ {c} :
                   /\ conn'[d] = conn[d] /\ lock'[d] = lock[d]
                   /\ localToken'[d] = localToken[d]
                   /\ pc'[d] = pc[d] /\ ret'[d] = ret[d]]_vars

\* the only call so far was close() on the client that was closed before,
\* next to a Ready client on the same pool
C7_Witness ==
    /\ ncalls = 1
    /\ ret["c2"].op = "close" /\ ret["c2"].status = "returned"
    /\ conn["c2"] = None /\ conn["c1"] # None

\* C8: after any constructions there is one pool, every construction's
\* get_pool() is that pool, and its parameters are the first construction's.
C8_FirstWinsSingleton ==
    handles # <<>> =>
        /\ Len(instances) = 1
        /\ \A i \in DOMAIN handles :
              /\ handles[i].inst = 1
              /\ GetPool(handles[i]) =
                    [host |-> handles[1].args.host, port |-> handles[1].args.port,
                     db |-> handles[1].args.db,
                     max_connections |-> handles[1].args.max_connections,
                     decode_responses |-> TRUE]

\* a later construction passed other arguments than the first
C8_Witness ==
    /\ Len(handles) >= 2
    /\ handles[2].args.host # handles[1].args.host
    /\ handles[2].args.port # handles[1].args.port
    /\ handles[1].args.host # "localhost"

\* C9: when init() fails (called directly, awaited, or on entering the
\* block) the error is raised to the caller and the connection and the lock
\* are what they were before the call.
C9_FailedInitNoPartialState ==
    [][\A c \in Clients :
          /\ InitFail(c) => (ret'[c].status = "raised" /\ ret'[c].logged)
          /\ (pc[c] = "init_await" /\ pc'[c] = "idle"
                /\ ret'[c].status = "raised") =>
                /\ ret'[c].op \in LifeOps
                /\ conn'[c] = conn[c] /\ lock'[c] = lock[c]]_vars

\* entering the block on the never-initialised client failed
C9_Witness ==
    /\ ret["c3"].op = "aenter" /\ ret["c3"].status = "raised"
    /\ conn["c3"] = None /\ lock["c3"] = None

LockFreeOps == {"get", "keys", "publish", "subscribe"}

\* C10: a store error during get, keys, publish or subscribe on a Ready client
\* is not propagated: get returns None, keys returns [], publish and
\* subscribe return normally, and the client's connection and lock stay.
C10_SoftFailure ==
    [][\A c \in Clients :
          (ret'[c] # ret[c] /\ ret'[c].op \in LockFreeOps /\ conn[c] # None) =>
             /\ ret'[c].status = "raised" => ret'[c].error = "CallbackError"
             /\ ret'[c].logged =>
                   /\ ret'[c].status = "returned"
                   /\ ret'[c].value = IF ret'[c].op = "keys" THEN PyList({}) ELSE PyNone
             /\ conn'[c] = conn[c] /\ lock'[c] = lock[c]]_vars

\* a subscribe and a read, both ended by a store error that was only logged
C10_Witness ==
    \E c, d \in Clients :
        /\ c # d /\ conn[c] # None /\ conn[d] # None
        /\ ret[c].op = "subscribe" /\ ret[c].logged /\ ret[c].status = "returned"
        /\ ret[d].op \in {"get", "keys"} /\ ret[d].logged /\ ret[d].status = "returned"

MutatingOps == {"set", "sadd"}

\* C11: a set or sadd call on a Ready client ends by returning normally,
\* whichever of its store round trips (acquiring the lock, the command,
\* releasing the lock) met a store error: no error reaches the caller.
C11_MutatingSoftFailure ==
    \A c \in Clients :
        (pc[c] = "idle" /\ ret[c].op \in MutatingOps
           /\ conn[c] # None /\ lock[c] # None)
        => ret[c].status = "returned"

\* the connection and the lock of a client are both present or both absent
Paired(cn, lk) == (cn = None) <=> (lk = None)

\* C12: no call of init, await, the scoped block's enter or exit, or close
\* separates the connection from the lock: a client whose connection and
\* lock were both present or both absent still has them so after the step.
C12_PairedLazyInit ==
    [][\A c \in Clients :
          Paired(conn[c], lock[c]) => Paired(conn'[c], lock'[c])]_vars

\* C13: leaving the scoped block of a Ready client releases its connection
\* and empties its connection reference, as close() does.
C13_ScopedExitCloses ==
    [][\A c \in Clients :
          (AExit(c) /\ conn[c] # None /\ lock[c] # None) =>
             /\ conn[c][1] \in released'
             /\ conn'[c] = None]_vars

\* C17: when close() on a Ready client meets a store error while releasing
\* the connection (the error is logged), the call returns normally and the
\* connection reference is empty afterwards.
C17_CloseSwallowsFailure ==
    [][\A c \in Clients :
          (Close(c) /\ conn[c] # None /\ lock[c] # None /\ ret'[c].logged) =>
             /\ ret'[c].op = "close"
             /\ ret'[c].status = "returned" /\ ret'[c].value = PyNone
             /\ conn'[c] = None]_vars

\* close() of the Ready client failed on its release during an outage
C17_Witness ==
    /\ ~reachable
    /\ ret["c1"].op = "close" /\ ret["c1"].logged /\ ret["c1"].status = "returned"
    /\ conn["c1"] = None /\ released = {ConnId("c2")}

\* C18: whenever a client's connection reference is replaced or emptied,
\* the connection it referred to has been released: no connection the
\* client obtained is left behind unreleased.
C18_NoConnectionLeaked ==
    [][\A c \in Clients :
          (conn[c] # None /\ conn'[c] # conn[c]) => conn[c][1] \in released']_vars

\* C19: the data command of a set or sadd call, whatever its key argument,
\* leaves every client's hold on every namespace lock as it was: holders
\* change only through a call's own acquire and release.
C19_DataOpsKeepLocks ==
    [][\A c \in Clients :
          (SetOp(c) \/ SaddOp(c)) =>
             \A d \in Clients : HoldsLock(d)' = HoldsLock(d)]_vars

\* the only set/sadd call made so far is d's set(k, value) without ex, and it
\* has returned to its caller: nothing else wrote k since
SetReturned(d, k) ==
    /\ pc[d] = "idle"
    /\ args[d].op = "set" /\ args[d].key = k /\ args[d].ex = None
    /\ ret[d].op = "set" /\ ret[d].status = "returned"
    /\ \A e \in Clients \ {d} : args[e].op = "none"

\* no set call was made and the store had nothing at k
NeverSet(k) ==
    /\ prior[k].type = "none"
    /\ \A e \in Clients : args[e].op = "none"

\* C14 as stated: after d's set(k, value) returned, a get(k) by any client on
\* the reachable store returns that value, for every value; get of a key
\* never set returns None without a logged error.
C14_RoundTripAnyValue ==
    [][\A c, d \in Clients, k \in DataKeys :
          (GetKey(c, k) /\ conn[c] # None /\ reachable) =>
             /\ SetReturned(d, k) => ret'[c] = Returned("get", args[d].value)
             /\ NeverSet(k) => ret'[c] = Returned("get", PyNone)]_vars

\* C14, amended: after d's set(k, value) returned, get(k) returns the value
\* when it is a string.  Of the other values, an integer is read back as
\* its decimal text; a value the connection refuses is not stored (set logs
\* and returns), so get answers from what the key held before; bytes that are not text make get
\* raise UnicodeDecodeError.  get of a key never set returns None without a
\* logged error.
C14_RoundTripText ==
    [][/\ \A c, d \in Clients, k \in DataKeys :
          (GetKey(c, k) /\ conn[c] # None /\ reachable) =>
             /\ (SetReturned(d, k) /\ args[d].value.kind = "str") =>
                   ret'[c] = Returned("get", args[d].value)
             /\ (SetReturned(d, k) /\ args[d].value.kind = "int") =>
                   ret'[c] = Returned("get", PyStr(ToString(args[d].value.int)))
             /\ (SetReturned(d, k) /\ ~Encodable(args[d].value)) =>
                   /\ ret[d].logged
                   /\ ncalls = 1 =>
                         /\ store[k] = prior[k]
                         /\ ret'[c] = IF RedisGetAllowed(prior, k)
                                        THEN Returned("get", RedisGet(prior, k))
                                        ELSE SoftFailure("get", PyNone)
             /\ (SetReturned(d, k) /\ args[d].value.kind = "bytes"
                   /\ ~Decodable(args[d].value.str)) =>
                   ret'[c] = Raised("get", "UnicodeDecodeError")
             /\ NeverSet(k) => ret'[c] = Returned("get", PyNone)
       /\ \A d \in Clients :
             (SetOp(d) /\ conn[d] # None /\ ~Encodable(args[d].value)) =>
                store' = store /\ ret'[d].logged]_vars

\* a client read back the string another client had set over a stored set
C14_Witness ==
    \E c, d \in Clients :
        /\ c # d /\ reachable
        /\ SetReturned(d, "k") /\ args[d].value = PyStr("v") /\ ~ret[d].logged
        /\ prior["k"].type = "set"
        /\ ret[c] = Returned("get", PyStr("v"))

DataOps == MutatingOps \cup LockFreeOps

\* C15: on a client whose connection is absent (never initialised, or closed
\* by close()) every get, set, keys, sadd, publish or subscribe call ends
\* raised to the caller, and the steps of these calls that would address the
\* store with a data command leave the store and every subscription as they
\* were; a subscribe call does not reach the store.
C15_OutsideReadyFails ==
    [][\A c \in Clients :
          conn[c] = None =>
             /\ (pc'[c] = "idle" /\ (pc[c] # "idle" \/ ret'[c] # ret[c])
                   /\ ret'[c].op \in DataOps) => ret'[c].status = "raised"
             /\ (SetOp(c) \/ SaddOp(c) \/ Get(c) \/ Keys(c) \/ Publish(c)
                   \/ SubscribeCall(c)) =>
                   /\ store' = store /\ stream' = stream
                   /\ subscribed' = subscribed
                   /\ pc'[c] # "subscribing"]_vars

\* set on the closed client went through the lock and raised; get on the
\* client that was never initialised raised
C15_Witness ==
    /\ conn["c2"] = None /\ lock["c2"] # None
    /\ ret["c2"] = Raised("set", "AttributeError")
    /\ conn["c3"] = None /\ lock["c3"] = None
    /\ ret["c3"] = Raised("get", "AttributeError")
    /\ store["k"].str = "v"

\* a client of c's namespace other than c is inside set and holds the lock
LockHeldByOther(c) ==
    \E d \in Clients \ {c} :
        Namespace(d) = Namespace(c) /\ InCritical(d) /\ HoldsLock(d)

\* C16: while another client of its namespace holds the lock, a Ready client
\* can start and finish get, keys and publish and can start a subscribe and
\* have it confirmed; and no step of get, keys, publish or subscribe changes a lock
\* key, a lock token or who holds a lock, or waits at the lock.
C16_LockFreeReads ==
    /\ [](\A c \in Clients :
            (LockHeldByOther(c) /\ conn[c] # None) =>
               /\ (pc[c] = "idle" /\ ncalls < MaxCalls) =>
                     /\ ENABLED Get(c)
                     /\ ENABLED Keys(c)
                     /\ ENABLED SubscribeCall(c)
               /\ (pc[c] = "idle" /\ Received(Clients) < MaxMessages) =>
                     ENABLED Publish(c)
               /\ pc[c] = "subscribing" => ENABLED SubscribeOk(c))
    /\ [][\A c \in Clients :
            (Get(c) \/ Keys(c) \/ Publish(c) \/ SubscribeCall(c)
               \/ SubscribeOk(c)) =>
               /\ \A d \in Clients : HoldsLock(d)' = HoldsLock(d)
               /\ \A k \in LockKeys : store'[k] = store[k]
               /\ localToken' = localToken
               /\ pc'[c] \notin {"acquire", "locked", "release"}]_vars

\* c1 read the value c2 had just written, while c2 still held the lock
C16_Witness ==
    /\ pc["c2"] = "release" /\ HoldsLock("c2")
    /\ args["c2"].key = "k" /\ args["c2"].value = PyInt(5)
    /\ pc["c1"] = "idle" /\ ret["c1"] = Returned("get", PyStr("5"))

\* C20: on a store that stays reachable, under fair scheduling, every set or
\* sadd call that waits for its namespace lock eventually ends.
C20_MutatingCallsProgress ==
    \A c \in Clients : (pc[c] = "acquire") ~> (pc[c] = "idle")

====
